---- MODULE Spec2Model ----
(***************************************************************************)
(* Conversation-state and access-control engine of gpt_bot_rs.             *)
(*                                                                         *)
(* The four tables of db.rs (sessions, messages, whitelist_users, admins)  *)
(* are the shared state.  models.rs is modelled statement by statement:    *)
(* every SQL statement is one atomic step on the tables.  The              *)
(* specifications use these statements:                                    *)
(*   SpecSeq    the functions of models.rs called one after the other (no  *)
(*              two calls overlap), with arbitrary arguments;              *)
(*   SpecStore  SpecSeq without the read-only get_recent_messages;         *)
(*   SpecRows   SpecStore started on any sessions table, several rows per  *)
(*              conversation included;                                     *)
(*   SpecReg    the whitelist and admin functions of models.rs and the     *)
(*              init_db of db.rs, called one after the other;              *)
(*   Spec       the dispatcher of main.rs: handlers of inbound events      *)
(*              that interleave at every await;                            *)
(*   SpecBackends  SpecStore and get_recent_messages on each backend;      *)
(*   SpecWindow process_chat_message called by callers that may overlap,   *)
(*              on sessions longer than the context window;                *)
(*   SpecBoot   the dispatcher in a process that is started again and      *)
(*              again, with init_db at every start;                        *)
(*   SpecRevoke the dispatcher while a whitelisted user is removed;        *)
(*   SpecLive   the dispatcher on text and Clear events, every spawned     *)
(*              task being polled until it ends;                           *)
(*   SpecIds    the whitelist and admin functions called with user ids of  *)
(*              the whole u64 range, stored as i64.                        *)
(***************************************************************************)
EXTENDS Integers, Sequences, FiniteSets, TLC

\* ------------------------------------------------------------------ bounds
\* SpecSeq: how many rows the calls may insert, and the limits they pass.
SeqMaxSessions == 2
SeqMaxMessages == 2
MaxLimit == 2
\* The last value of the backend's clock.
MaxClock == 1

\* Spec: how many rows the handlers may insert, and how many updates arrive.
MaxSessions == 2
MaxMessages == 3
MaxEvents == 2
\* The context window process_chat_message asks for.
HistoryLimit == 10

\* The conversation ids of the inbound events (msg.chat.id).
ChatIds == {1, 2}
Limits == 0..MaxLimit
\* The turns the callers append: the user's text, the assistant's reply.
Turns == {[role |-> "user", content |-> "hello"],
          [role |-> "assistant", content |-> "hi"]}

VARIABLES
    sessions,       \* table sessions: rows [id, chat_id, created_at, updated_at]
    messages,       \* table messages: rows [id, session_id, role, content, timestamp]
    seq_sessions,   \* AUTOINCREMENT / SERIAL counter of sessions.id
    seq_messages,   \* AUTOINCREMENT / SERIAL counter of messages.id
    whitelist_users, \* table whitelist_users: rows [user_id, username, added_by, added_at, notes]
    admins,         \* table admins: rows [user_id, username, is_super, added_at]
    clock,          \* the backend's current time (datetime('now') / CURRENT_TIMESTAMP)
    ret,            \* SpecSeq: the last call of models.rs and what it returned
    pc,             \* Spec: where each handler of the dispatcher stands
    msg,            \* Spec: the inbound update each handler is handling
    local,          \* Spec: each handler's local variables
    trace,          \* Spec: what each handler has done for its update so far
    delivered       \* Spec: how many updates the dispatcher has handed out

chat == <<sessions, messages, seq_sessions, seq_messages>>
registry == <<whitelist_users, admins>>
dispatcher == <<pc, msg, local, trace, delivered>>
vars == <<chat, registry, clock, ret, dispatcher>>

\* ------------------------------------------------------------- utilities
Min(a, b) == IF a <= b THEN a ELSE b

Take(s, n) == SubSeq(s, 1, Min(n, Len(s)))

Range(s) == {s[i] : i \in 1..Len(s)}

\* All orderings of the rows S by timestamp ascending.  Rows with equal
\* timestamps come in any order: ORDER BY timestamp names no other key.
RECURSIVE OrderByTimestampAsc(_)
OrderByTimestampAsc(S) ==
    IF S = {} THEN {<<>>}
    ELSE UNION { { <<m>> \o t : t \in OrderByTimestampAsc(S \ {m}) } :
                 m \in {x \in S : \A y \in S : x.timestamp <= y.timestamp} }

\* The rows S in order of their id (the order in which the INSERTs completed).
RECURSIVE OrderById(_)
OrderById(S) ==
    IF S = {} THEN <<>>
    ELSE LET m == CHOOSE x \in S : \A y \in S : x.id <= y.id
         IN <<m>> \o OrderById(S \ {m})

ChatMessage(m) == [role |-> m.role, content |-> m.content]

\* ------------------------------------------------- statements of models.rs
\* A missing row (fetch_optional's None) and a missing id are written 0:
\* AUTOINCREMENT and SERIAL ids start at 1.
None == 0

SessionRow(id, chat_id, at) ==
    [id |-> id, chat_id |-> chat_id, created_at |-> at, updated_at |-> at]

MessageRow(id, session_id, role, content, at) ==
    [id |-> id, session_id |-> session_id, role |-> role, content |-> content,
     timestamp |-> at]

\* SELECT id FROM sessions WHERE chat_id = ?   (fetch_optional)
\* The possible results: the id of any one matching row, None when no row
\* matches.  The statement names no order, so with several matching rows
\* any of them may come first.
SelectSessionId_AlwaysMiss(chat_id) == {None}

SelectSessionId_ById(chat_id) ==
    IF \E s \in sessions : s.id = chat_id
    THEN {s.id : s \in {x \in sessions : x.id = chat_id}}
    ELSE {None}

SelectSessionId(chat_id) ==
    IF \E s \in sessions : s.chat_id = chat_id
    THEN {s.id : s \in {x \in sessions : x.chat_id = chat_id}}
    ELSE {None}

\* SELECT id FROM sessions WHERE chat_id = ?   (fetch_all)
SelectSessionIds_One(chat_id) ==
    LET ids == {s.id : s \in {r \in sessions : r.chat_id = chat_id}}
    IN IF ids = {} THEN {} ELSE {CHOOSE i \in ids : TRUE}

SelectSessionIds(chat_id) == {s.id : s \in {x \in sessions : x.chat_id = chat_id}}

\* UPDATE sessions SET updated_at = <now> WHERE id = ?
UpdateSession(id) ==
    {IF s.id = id THEN [s EXCEPT !.updated_at = clock] ELSE s : s \in sessions}

\* INSERT INTO sessions (chat_id) VALUES (?): the id is the next of the
\* sequence, created_at and updated_at take their DEFAULT, the current time.
InsertSession_UniqueChat(chat_id) ==
    IF \E s \in sessions : s.chat_id = chat_id THEN sessions
    ELSE sessions \cup {SessionRow(seq_sessions + 1, chat_id, clock)}

InsertSession(chat_id) ==
    sessions \cup {SessionRow(seq_sessions + 1, chat_id, clock)}

\* FOREIGN KEY (session_id) REFERENCES sessions(id)
ForeignKeyOk_Off(session_id) == TRUE

ForeignKeyOk(session_id) == \E s \in sessions : s.id = session_id

\* INSERT INTO messages (session_id, role, content) VALUES (?, ?, ?)
InsertMessage(session_id, role, content) ==
    messages \cup {MessageRow(seq_messages + 1, session_id, role, content, clock)}

\* SELECT role, content FROM messages WHERE session_id = ?
\*   ORDER BY timestamp ASC LIMIT ?
\* The possible results, as sequences of rows.
SelectMessages(session_id, limit) ==
    {Take(o, limit) :
        o \in OrderByTimestampAsc({m \in messages : m.session_id = session_id})}

\* The same statement on each backend, with its outcome: LIMIT takes any
\* i64.  SQLite reads a negative LIMIT as no limit; PostgreSQL refuses it
\* (LIMIT must not be negative) and the function returns Err.
Backends == {"sqlite", "postgres"}

SelectMessagesOn(backend, session_id, limit) ==
    LET orders == OrderByTimestampAsc({m \in messages : m.session_id = session_id})
        rows(o) == [i \in 1..Len(o) |-> ChatMessage(o[i])]
    IN IF limit >= 0
       THEN {[ok |-> TRUE, result |-> rows(Take(o, limit))] : o \in orders}
       ELSE IF backend = "sqlite"
       THEN {[ok |-> TRUE, result |-> rows(o)] : o \in orders}
       ELSE {[ok |-> FALSE, result |-> <<>>]}

\* DELETE FROM messages WHERE session_id = ?
DeleteMessages(session_id) == {m \in messages : m.session_id # session_id}

\* DELETE FROM sessions WHERE chat_id = ?
DeleteSessions_All(chat_id) == {}

DeleteSessions_None(chat_id) == sessions

DeleteSessions(chat_id) == {s \in sessions : s.chat_id # chat_id}

\* The DELETE fails when a message still references one of the rows.
DeleteSessionsOk(chat_id, msgs) ==
    \A m \in msgs : m.session_id \notin SelectSessionIds(chat_id)

\* ------------------------------------------------------------ strings
\* A string that the code parses is the sequence of its characters; the
\* texts of turns, which the code only stores and forwards, stay opaque.
Digits == <<"0", "1", "2", "3", "4", "5", "6", "7", "8", "9">>

IsDigit(c) == \E i \in 1..10 : Digits[i] = c

DigitVal(c) == (CHOOSE i \in 1..10 : Digits[i] = c) - 1

RECURSIVE TrimStart(_)
TrimStart(s) == IF s # <<>> /\ Head(s) = " " THEN TrimStart(Tail(s)) ELSE s

RECURSIVE TrimEnd(_)
TrimEnd(s) ==
    IF s # <<>> /\ s[Len(s)] = " " THEN TrimEnd(SubSeq(s, 1, Len(s) - 1)) ELSE s

\* str::trim
Trim(s) == TrimEnd(TrimStart(s))

RECURSIVE DecimalValue(_)
DecimalValue(s) ==
    IF s = <<>> THEN 0
    ELSE 10 * DecimalValue(SubSeq(s, 1, Len(s) - 1)) + DigitVal(s[Len(s)])

AllDigits(s) == s # <<>> /\ \A i \in 1..Len(s) : IsDigit(s[i])

\* str::parse::<u64>: an optional '+', then one or more digits.  (The
\* strings of this model are too short to overflow.)
parse_u64(s) ==
    LET body == IF s # <<>> /\ Head(s) = "+" THEN Tail(s) ELSE s
    IN IF AllDigits(body) THEN [ok |-> TRUE, val |-> DecimalValue(body)]
       ELSE [ok |-> FALSE, val |-> 0]

\* str::parse::<i64>: an optional sign, then one or more digits.
parse_i64(s) ==
    LET signed == s # <<>> /\ Head(s) \in {"+", "-"}
        body == IF signed THEN Tail(s) ELSE s
    IN IF AllDigits(body)
       THEN [ok |-> TRUE,
             val |-> IF signed /\ Head(s) = "-" THEN 0 - DecimalValue(body)
                     ELSE DecimalValue(body)]
       ELSE [ok |-> FALSE, val |-> 0]

FirstIndex(s, sep) == CHOOSE i \in 1..Len(s) : s[i] = sep /\ \A j \in 1..(i - 1) : s[j] # sep

\* str::split(sep)
RECURSIVE Split(_, _)
Split(s, sep) ==
    IF \E i \in 1..Len(s) : s[i] = sep
    THEN LET i == FirstIndex(s, sep)
         IN <<SubSeq(s, 1, i - 1)>> \o Split(SubSeq(s, i + 1, Len(s)), sep)
    ELSE <<s>>

\* str::splitn(2, sep)
SplitN2(s, sep) ==
    IF \E i \in 1..Len(s) : s[i] = sep
    THEN LET i == FirstIndex(s, sep)
         IN <<SubSeq(s, 1, i - 1), SubSeq(s, i + 1, Len(s))>>
    ELSE <<s>>

\* Option<&str>
NoStr == [some |-> FALSE, val |-> <<>>]
Some(x) == [some |-> TRUE, val |-> x]

\* --------------------------------------------- statements on the registry
AdminRow(user_id, username, is_super, at) ==
    [user_id |-> user_id, username |-> username, is_super |-> is_super,
     added_at |-> at]

WhitelistRow(user_id, username, added_by, notes, at) ==
    [user_id |-> user_id, username |-> username, added_by |-> added_by,
     added_at |-> at, notes |-> notes]

\* SELECT COUNT(*) FROM admins WHERE user_id = ?            (count > 0)
is_admin(user_id) == \E a \in admins : a.user_id = user_id

\* SELECT COUNT(*) FROM admins WHERE user_id = ? AND is_super = 1
is_super_admin_AnyAdmin(user_id) == \E a \in admins : a.user_id = user_id

is_super_admin(user_id) == \E a \in admins : a.user_id = user_id /\ a.is_super

\* SELECT COUNT(*) FROM whitelist_users WHERE user_id = ?
is_user_whitelisted(user_id) == \E w \in whitelist_users : w.user_id = user_id

\* INSERT OR IGNORE INTO admins / ... ON CONFLICT (user_id) DO NOTHING
InsertOrIgnoreAdmin_Replace(tbl, user_id, username, is_super, at) ==
    {a \in tbl : a.user_id # user_id} \cup {AdminRow(user_id, username, is_super, at)}

InsertOrIgnoreAdmin(tbl, user_id, username, is_super, at) ==
    IF \E a \in tbl : a.user_id = user_id THEN tbl
    ELSE tbl \cup {AdminRow(user_id, username, is_super, at)}

\* Admin::add_admin
add_admin(user_id, username, is_super) ==
    InsertOrIgnoreAdmin(admins, user_id, username, is_super, clock)

\* WhitelistUser::add_user
add_user_Replace(user_id, username, added_by, notes) ==
    {w \in whitelist_users : w.user_id # user_id}
        \cup {WhitelistRow(user_id, username, added_by, notes, clock)}

add_user(user_id, username, added_by, notes) ==
    IF \E w \in whitelist_users : w.user_id = user_id THEN whitelist_users
    ELSE whitelist_users \cup {WhitelistRow(user_id, username, added_by, notes, clock)}

\* WhitelistUser::remove_user: the table it leaves; it returns
\* rows_affected > 0.
remove_user(user_id) == {w \in whitelist_users : w.user_id # user_id}

\* result.rows_affected() > 0
remove_user_returns_Always(user_id) == TRUE

remove_user_returns(user_id) ==
    Cardinality(whitelist_users \ remove_user(user_id)) > 0

\* The configured ADMIN_USER_IDS.
ADMIN_USER_IDS == <<"1">>

\* add_initial_admins: every entry that parses is inserted as a super-admin
\* unless its user_id is present.
RECURSIVE SeedAdmins_StopAtInvalid(_, _, _)
SeedAdmins_StopAtInvalid(tbl, entries, at) ==
    IF entries = <<>> THEN tbl
    ELSE LET p == parse_i64(Trim(Head(entries)))
         IN IF p.ok
            THEN SeedAdmins_StopAtInvalid(
                     InsertOrIgnoreAdmin(tbl, p.val, NoStr, TRUE, at), Tail(entries), at)
            ELSE tbl

RECURSIVE SeedAdmins(_, _, _)
SeedAdmins(tbl, entries, at) ==
    IF entries = <<>> THEN tbl
    ELSE LET p == parse_i64(Trim(Head(entries)))
         IN SeedAdmins(IF p.ok THEN InsertOrIgnoreAdmin(tbl, p.val, NoStr, TRUE, at)
                       ELSE tbl,
                       Tail(entries), at)

add_initial_admins_Reseed(tbl, admin_ids, at) ==
    IF admin_ids = <<>> THEN tbl
    ELSE tbl \cup SeedAdmins({}, Split(admin_ids, ","), at)

add_initial_admins(tbl, admin_ids, at) ==
    IF admin_ids = <<>> THEN tbl ELSE SeedAdmins(tbl, Split(admin_ids, ","), at)

\* ------------------------------------------------------- the dispatcher
\* The dispatcher runs the handlers of several updates at once.
Handlers == {"h1", "h2"}

\* The senders of updates (msg.from): user ids, or None for no sender.
Senders == {1, 2, None}

\* Texts are sequences of characters: what the sender typed, what the
\* transcription returns, what the LLM replies.
Texts == {<<"h", "i">>, <<"/", "x">>}
Transcripts == {<<"h", "i">>}
Replies == {<<"o", "k">>}
Args == {<<"2">>, <<"x">>}

\* text.starts_with('/')
starts_with_slash(text) == text # <<>> /\ Head(text) = "/"

InfoCommands == {"Help", "Start", "Ping"}
AdminCommands == {"AddUser", "RemoveUser", "ListUsers", "AddAdmin", "ListAdmins"}
ArgCommands == {"AddUser", "RemoveUser", "AddAdmin"}

\* The argument of "/adduser 2 f": a user id and a note.
NotedArg == <<"2", " ", "f">>

Update(kind, chat_id, from, text, arg) ==
    [kind |-> kind, chat_id |-> chat_id, from |-> from, text |-> text, arg |-> arg]

\* The updates the transport delivers.
Updates ==
         {Update("text", c, f, <<"h", "i">>, <<>>) : c \in ChatIds, f \in Senders}
    \cup {Update("text", 1, 1, t, <<>>) : t \in Texts}
    \cup {Update("other", 1, 2, <<>>, <<>>)}
    \cup {Update(k, c, f, <<>>, <<>>) :
              k \in {"voice", "Clear"}, c \in ChatIds, f \in {1, 2}}
    \cup {Update(k, 1, 2, <<>>, <<>>) : k \in InfoCommands}
    \cup {Update(k, 1, f, <<>>, <<>>) : k \in {"ListUsers", "ListAdmins"}, f \in {1, 2}}
    \cup {Update(k, 1, f, <<>>, a) : k \in ArgCommands, f \in {1, 2}, a \in Args}
    \cup {Update("AddUser", 1, None, <<>>, <<"2">>)}
    \cup {Update("AddUser", 1, 1, <<>>, NotedArg)}

NoUpdate == Update("none", None, None, <<>>, <<>>)

Local0 ==
    [session_id |-> None, found |-> None, caller |-> "none", ids |-> {},
     history |-> <<>>, hist_ids |-> <<>>, text |-> <<>>, reply |-> <<>>,
     result |-> "none", target |-> None, notes |-> NoStr]

\* What the handler has done: the outcome of each authorization query
\* ("none" before it ran, then "true", "false" or "err"), the turns it
\* appended, the remote calls it made, the state of its "thinking"
\* placeholder, the list it sent, the messages.id its clear deleted, how it
\* ended.
Trace0 ==
    [is_admin |-> "none", is_whitelisted |-> "none", check |-> "none",
     granted |-> FALSE, appended |-> <<>>, calls |-> {}, placeholder |-> "none",
     listing |-> <<>>, deleted |-> {}, outcome |-> "none"]

\* A query returns Ok(answer), or Err when the storage fails.
QueryResult(answer) == {IF answer THEN "true" ELSE "false", "err"}

\* check_whitelist, handle_command: only Ok(true) lets the sender in.
Grants_ErrToo(r) == r \in {"true", "err"}

Grants(r) == r = "true"

\* main: where a granted text, voice or Clear update goes on.
Entry(kind) ==
    CASE kind = "text" -> "htm_thinking"
      [] kind = "voice" -> "hvm_download"
      [] OTHER -> "clr_select"

\* main: the branch of the dispatch tree that takes the update.
Route_Unchecked(kind) ==
    CASE kind \in {"text", "voice", "Clear"} -> Entry(kind)
      [] kind \in InfoCommands -> "cmd_info"
      [] kind \in AdminCommands -> "cmd_check"
      [] OTHER -> "default_handler"

Route(kind) ==
    CASE kind \in {"text", "voice", "Clear"} -> "cw_is_admin"
      [] kind \in InfoCommands -> "cmd_info"
      [] kind \in AdminCommands -> "cmd_check"
      [] OTHER -> "default_handler"

\* Handler h goes on at p with locals l, having done t.
Step(h, p, l, t) ==
    /\ pc' = [pc EXCEPT ![h] = p]
    /\ local' = [local EXCEPT ![h] = l]
    /\ trace' = [trace EXCEPT ![h] = t]

\* Handler h returns: its locals are dropped; what it did stays on record
\* until it takes its next update.
Finish(h, t, outcome) == Step(h, "done", Local0, [t EXCEPT !.outcome = outcome])

\* Dispatcher: an update arrives and a task is spawned for it.  Tasks are
\* anonymous, so which free slot runs it makes no difference; finished
\* tasks are reaped first.
dispatch(h, u) ==
    /\ \A g \in Handlers : pc[g] # "done"
    /\ pc[h] = "idle"
    /\ h = CHOOSE g \in Handlers : pc[g] = "idle"
    /\ delivered < MaxEvents
    /\ delivered' = delivered + 1
    /\ msg' = [msg EXCEPT ![h] = u]
    /\ Step(h, Route(u.kind), Local0, Trace0)
    /\ UNCHANGED <<chat, registry, clock, ret>>

\* Dispatcher: the task of a handled update ends.
handler_return(h) ==
    /\ pc[h] = "done"
    /\ msg' = [msg EXCEPT ![h] = NoUpdate]
    /\ Step(h, "idle", Local0, Trace0)
    /\ UNCHANGED <<chat, registry, clock, ret, delivered>>

\* Dispatcher: an update no branch takes (neither voice, command nor text).
default_handler(h) ==
    /\ pc[h] = "default_handler"
    /\ Finish(h, trace[h], "unhandled")
    /\ UNCHANGED <<chat, registry, clock, ret, msg, delivered>>

\* check_whitelist, up to the end of its first query.
cw_is_admin(h) ==
    /\ pc[h] = "cw_is_admin"
    /\ IF msg[h].from = None
       THEN Finish(h, trace[h], "denied")
       ELSE \E r \in QueryResult(is_admin(msg[h].from)) :
              Step(h, IF Grants(r) THEN Entry(msg[h].kind) ELSE "cw_is_whitelisted",
                   local[h], [trace[h] EXCEPT !.is_admin = r, !.granted = Grants(r)])
    /\ UNCHANGED <<chat, registry, clock, ret, msg, delivered>>

\* check_whitelist, its second query.
cw_is_whitelisted(h) ==
    /\ pc[h] = "cw_is_whitelisted"
    /\ \E r \in QueryResult(is_user_whitelisted(msg[h].from)) :
          LET t == [trace[h] EXCEPT !.is_whitelisted = r, !.granted = Grants(r)]
          IN IF Grants(r) THEN Step(h, Entry(msg[h].kind), local[h], t)
             ELSE Finish(h, t, "denied")
    /\ UNCHANGED <<chat, registry, clock, ret, msg, delivered>>

\* handle_text_message: the "thinking" placeholder is sent, then
\* process_chat_message starts.  A send that fails ends the handler.
htm_thinking(h) ==
    /\ pc[h] = "htm_thinking"
    /\ IF starts_with_slash(msg[h].text)
       THEN Finish(h, trace[h], "ignored")
       ELSE \/ Step(h, "foc_select",
                    [local[h] EXCEPT !.text = msg[h].text, !.caller = "pcm"],
                    [trace[h] EXCEPT !.placeholder = "shown"])
            \/ Finish(h, trace[h], "transport_error")
    /\ UNCHANGED <<chat, registry, clock, ret, msg, delivered>>

\* Session::find_or_create_by_chat_id, its SELECT.  The caller's session
\* variable is not bound before the call returns: process_chat_message does
\* not see the session handle_voice_message obtained.
foc_select(h) ==
    /\ pc[h] = "foc_select"
    /\ \E id \in SelectSessionId(msg[h].chat_id) :
          Step(h, "foc_write",
               [local[h] EXCEPT !.found = id, !.session_id = None], trace[h])
    /\ UNCHANGED <<chat, registry, clock, ret, msg, delivered>>

\* Where the caller of find_or_create_by_chat_id goes on.
AfterFoc(h) == IF local[h].caller = "hvm" THEN "hvm_create" ELSE "pcm_create_user"

\* Session::find_or_create_by_chat_id, its UPDATE or its INSERT.
foc_write(h) ==
    /\ pc[h] = "foc_write"
    /\ IF local[h].found # None
       THEN /\ sessions' = UpdateSession(local[h].found)
            /\ Step(h, AfterFoc(h), [local[h] EXCEPT !.session_id = local[h].found],
                    trace[h])
            /\ UNCHANGED seq_sessions
       ELSE /\ seq_sessions < MaxSessions
            /\ sessions' = InsertSession(msg[h].chat_id)
            /\ seq_sessions' = seq_sessions + 1
            /\ Step(h, AfterFoc(h), [local[h] EXCEPT !.session_id = seq_sessions + 1],
                    trace[h])
    /\ UNCHANGED <<messages, seq_messages, registry, clock, ret, msg, delivered>>

\* What a failed step leads to.  In process_chat_message the error goes to
\* the caller, which edits the placeholder; in handle_voice_message itself
\* it goes to main, which reports it.
Fail_Propagate(h, t) == Finish(h, t, "voice_error")

Fail(h, t) ==
    IF local[h].caller = "pcm"
    THEN Step(h, "resolve", [local[h] EXCEPT !.result = "err"], t)
    ELSE Finish(h, t, "voice_error")

Turn(role, content) == [role |-> role, content |-> content]

\* Message::create called by handler h, which goes on at p with locals l:
\* the INSERT, refused when the session row is gone.
handler_create(h, role, content, p, l) ==
    IF ForeignKeyOk(local[h].session_id)
    THEN /\ seq_messages < MaxMessages
         /\ messages' = InsertMessage(local[h].session_id, role, content)
         /\ seq_messages' = seq_messages + 1
         /\ Step(h, p, l, [trace[h] EXCEPT !.appended = Append(@, Turn(role, content))])
    ELSE /\ Fail(h, trace[h])
         /\ UNCHANGED <<messages, seq_messages>>

\* process_chat_message: the user's turn is saved.
pcm_create_user(h) ==
    /\ pc[h] = "pcm_create_user"
    /\ handler_create(h, "user", local[h].text, "pcm_history", local[h])
    /\ UNCHANGED <<sessions, seq_sessions, registry, clock, ret, msg, delivered>>

\* process_chat_message: the context window is read.
pcm_history(h) ==
    /\ pc[h] = "pcm_history"
    /\ \E rows \in SelectMessages(local[h].session_id, HistoryLimit) :
          Step(h, "pcm_llm",
               [local[h] EXCEPT !.history = [i \in 1..Len(rows) |-> ChatMessage(rows[i])],
                                !.hist_ids = [i \in 1..Len(rows) |-> rows[i].id]],
               trace[h])
    /\ UNCHANGED <<chat, registry, clock, ret, msg, delivered>>

\* process_chat_message: the chat-completion request.  It answers with a
\* reply, or fails (transport error, error status, unparseable body).
pcm_llm(h) ==
    /\ pc[h] = "pcm_llm"
    /\ LET t == [trace[h] EXCEPT !.calls = @ \cup {"llm"}]
       IN \/ \E r \in Replies :
               Step(h, "pcm_create_reply", [local[h] EXCEPT !.reply = r], t)
          \/ Step(h, "resolve", [local[h] EXCEPT !.result = "err"], t)
    /\ UNCHANGED <<chat, registry, clock, ret, msg, delivered>>

\* process_chat_message: the assistant's turn is saved and the reply
\* returned.
pcm_create_reply(h) ==
    /\ pc[h] = "pcm_create_reply"
    /\ handler_create(h, "assistant", local[h].reply, "resolve",
                      [local[h] EXCEPT !.result = "ok"])
    /\ UNCHANGED <<sessions, seq_sessions, registry, clock, ret, msg, delivered>>

\* handle_text_message / handle_voice_message after process_chat_message:
\* on Ok the placeholder is deleted and the reply sent, on Err the
\* placeholder is edited into the error text.  Each transport call may fail.
resolve(h) ==
    /\ pc[h] = "resolve"
    /\ IF local[h].result = "ok"
       THEN \/ Finish(h, [trace[h] EXCEPT !.placeholder = "deleted"], "replied")
            \/ Finish(h, [trace[h] EXCEPT !.placeholder = "deleted"], "transport_error")
            \/ Finish(h, trace[h], "transport_error")
       ELSE \/ Finish(h, [trace[h] EXCEPT !.placeholder = "edited"], "error_shown")
            \/ Finish(h, trace[h], "transport_error")
    /\ UNCHANGED <<chat, registry, clock, ret, msg, delivered>>

\* handle_voice_message: the "processing" message is sent and the audio
\* downloaded.  A transport call that fails ends the handler.
hvm_download(h) ==
    /\ pc[h] = "hvm_download"
    /\ \/ Step(h, "hvm_transcribe", local[h], trace[h])
       \/ Finish(h, trace[h], "voice_error")
    /\ UNCHANGED <<chat, registry, clock, ret, msg, delivered>>

\* handle_voice_message: transcribe_audio; on Ok the transcript is shown and
\* find_or_create_by_chat_id called, on Err the error is shown.
hvm_transcribe(h) ==
    /\ pc[h] = "hvm_transcribe"
    /\ LET t == [trace[h] EXCEPT !.calls = @ \cup {"transcribe"}]
       IN \/ \E x \in Transcripts :
               Step(h, "foc_select", [local[h] EXCEPT !.text = x, !.caller = "hvm"], t)
          \/ Finish(h, t, "transcribe_error")
    /\ UNCHANGED <<chat, registry, clock, ret, msg, delivered>>

\* handle_voice_message: the transcript is saved as a user turn; then the
\* "thinking" placeholder is sent and process_chat_message called with the
\* transcript.
hvm_create(h) ==
    /\ pc[h] = "hvm_create"
    /\ handler_create(h, "user", local[h].text, "hvm_thinking", local[h])
    /\ UNCHANGED <<sessions, seq_sessions, registry, clock, ret, msg, delivered>>

hvm_thinking(h) ==
    /\ pc[h] = "hvm_thinking"
    /\ \/ Step(h, "foc_select", [local[h] EXCEPT !.caller = "pcm"],
               [trace[h] EXCEPT !.placeholder = "shown"])
       \/ Finish(h, trace[h], "voice_error")
    /\ UNCHANGED <<chat, registry, clock, ret, msg, delivered>>

\* Session::clear_history_by_chat_id, its SELECT.
clr_select(h) ==
    /\ pc[h] = "clr_select"
    /\ Step(h, IF SelectSessionIds(msg[h].chat_id) = {} THEN "clr_delete_sessions"
               ELSE "clr_delete_messages",
            [local[h] EXCEPT !.ids = SelectSessionIds(msg[h].chat_id)], trace[h])
    /\ UNCHANGED <<chat, registry, clock, ret, msg, delivered>>

\* Session::clear_history_by_chat_id, one round of its loop over the rows.
clr_delete_messages(h) ==
    /\ pc[h] = "clr_delete_messages"
    /\ \E id \in local[h].ids :
          /\ messages' = DeleteMessages(id)
          /\ Step(h, IF local[h].ids = {id} THEN "clr_delete_sessions"
                     ELSE "clr_delete_messages",
                  [local[h] EXCEPT !.ids = @ \ {id}],
                  [trace[h] EXCEPT
                      !.deleted = @ \cup {m.id : m \in messages \ DeleteMessages(id)}])
    /\ UNCHANGED <<sessions, seq_sessions, seq_messages, registry, clock, ret, msg,
                   delivered>>

\* Session::clear_history_by_chat_id, its DELETE FROM sessions, and the
\* answer handle_command sends.
clr_delete_sessions(h) ==
    /\ pc[h] = "clr_delete_sessions"
    /\ IF DeleteSessionsOk(msg[h].chat_id, messages)
       THEN sessions' = DeleteSessions(msg[h].chat_id) /\ Finish(h, trace[h], "cleared")
       ELSE UNCHANGED sessions /\ Finish(h, trace[h], "clear_error")
    /\ UNCHANGED <<messages, seq_sessions, seq_messages, registry, clock, ret, msg,
                   delivered>>

\* handle_command: Help, Start, Ping answer whoever asks.
cmd_info(h) ==
    /\ pc[h] = "cmd_info"
    /\ Finish(h, trace[h], "answered")
    /\ UNCHANGED <<chat, registry, clock, ret, msg, delivered>>

\* handle_command: the check of an administrative command (is_super_admin
\* for AddAdmin, is_admin for the others), then the parse of its argument.
\* A message with no sender is dropped without an answer.
cmd_check(h) ==
    /\ pc[h] = "cmd_check"
    /\ IF msg[h].from = None
       THEN Finish(h, trace[h], "ignored")
       ELSE \E r \in QueryResult(IF msg[h].kind = "AddAdmin"
                                 THEN is_super_admin(msg[h].from)
                                 ELSE is_admin(msg[h].from)) :
              LET p == parse_u64(Trim(msg[h].arg))
                  parts == SplitN2(msg[h].arg, " ")
                  t == [trace[h] EXCEPT !.check = r, !.granted = Grants(r)]
              IN IF ~Grants(r) THEN Finish(h, t, "rejected")
                 ELSE IF msg[h].kind \in ArgCommands /\ ~p.ok THEN Finish(h, t, "usage")
                 ELSE Step(h, "cmd_apply",
                           [local[h] EXCEPT
                               !.target = IF msg[h].kind \in ArgCommands THEN p.val
                                          ELSE None,
                               !.notes = IF msg[h].kind = "AddUser" /\ Len(parts) > 1
                                         THEN Some(parts[2]) ELSE NoStr],
                           t)
    /\ UNCHANGED <<chat, registry, clock, ret, msg, delivered>>

\* ... ORDER BY added_at DESC
RECURSIVE OrderByAddedAtDesc_Asc(_)
OrderByAddedAtDesc_Asc(S) ==
    IF S = {} THEN {<<>>}
    ELSE UNION { { <<m>> \o t : t \in OrderByAddedAtDesc_Asc(S \ {m}) } :
                 m \in {x \in S : \A y \in S : x.added_at <= y.added_at} }

RECURSIVE OrderByAddedAtDesc(_)
OrderByAddedAtDesc(S) ==
    IF S = {} THEN {<<>>}
    ELSE UNION { { <<m>> \o t : t \in OrderByAddedAtDesc(S \ {m}) } :
                 m \in {x \in S : \A y \in S : x.added_at >= y.added_at} }

\* ... ORDER BY is_super DESC, added_at ASC
AdminBefore_ByTimeOnly(a, b) == a.added_at <= b.added_at

AdminBefore(a, b) ==
    \/ a.is_super /\ ~b.is_super
    \/ a.is_super = b.is_super /\ a.added_at <= b.added_at

RECURSIVE OrderAdmins(_)
OrderAdmins(S) ==
    IF S = {} THEN {<<>>}
    ELSE UNION { { <<m>> \o t : t \in OrderAdmins(S \ {m}) } :
                 m \in {x \in S : \A y \in S : AdminBefore(x, y)} }

\* WhitelistUser::get_all_users / Admin::get_all_admins
get_all_users == OrderByAddedAtDesc(whitelist_users)
get_all_admins == OrderAdmins(admins)

UserIdsOf(rows) == [i \in 1..Len(rows) |-> rows[i].user_id]

\* handle_command, AddAdmin: the is_super argument it passes to add_admin.
AddAdminIsSuper_True == TRUE

AddAdminIsSuper == FALSE

\* handle_command: the statement of a granted administrative command, and
\* the answer sent.
cmd_apply(h) ==
    /\ pc[h] = "cmd_apply"
    /\ LET kind == msg[h].kind
           target == local[h].target
       IN CASE kind = "AddUser" ->
                 /\ whitelist_users' =
                        add_user(target, NoStr, msg[h].from, local[h].notes)
                 /\ Finish(h, trace[h], "added")
                 /\ UNCHANGED admins
            [] kind = "RemoveUser" ->
                 /\ whitelist_users' = remove_user(target)
                 /\ Finish(h, trace[h], IF remove_user_returns(target) THEN "removed"
                                        ELSE "not_present")
                 /\ UNCHANGED admins
            [] kind = "AddAdmin" ->
                 /\ admins' = add_admin(target, NoStr, AddAdminIsSuper)
                 /\ Finish(h, trace[h], "added")
                 /\ UNCHANGED whitelist_users
            [] kind = "ListUsers" ->
                 /\ \E rows \in get_all_users :
                       Finish(h, [trace[h] EXCEPT !.listing = UserIdsOf(rows)], "listed")
                 /\ UNCHANGED registry
            [] OTHER ->
                 /\ \E rows \in get_all_admins :
                       Finish(h, [trace[h] EXCEPT !.listing = UserIdsOf(rows)], "listed")
                 /\ UNCHANGED registry
    /\ UNCHANGED <<chat, clock, ret, msg, delivered>>

\* Any statement may fail in the storage (sqlx returns Err): the function
\* returns the error to its caller.
DbSteps ==
    {"foc_select", "foc_write", "pcm_create_user", "pcm_history", "pcm_create_reply",
     "hvm_create", "clr_select", "clr_delete_messages", "clr_delete_sessions",
     "cmd_apply"}

storage_error(h) ==
    /\ pc[h] \in DbSteps
    /\ CASE pc[h] \in {"clr_select", "clr_delete_messages", "clr_delete_sessions"} ->
              Finish(h, trace[h], "clear_error")
         [] pc[h] = "cmd_apply" -> Finish(h, trace[h], "cmd_error")
         [] OTHER -> Fail(h, trace[h])
    /\ UNCHANGED <<chat, registry, clock, ret, msg, delivered>>

\* ---------------------------------------------------------------- SpecSeq
\* What a call returned.  ids is the provenance of result (the messages.id of
\* each returned turn); repeat says that the call before this one was the
\* same function with the same chat_id, after_clear that it was
\* clear_history_by_chat_id with the same chat_id; cleared is the set of
\* sessions.id a clear_history_by_chat_id selected.
Ret(op, chat_id, session_id, limit, ok) ==
    [op |-> op, chat_id |-> chat_id, session_id |-> session_id, limit |-> limit,
     ok |-> ok, found |-> FALSE, repeat |-> FALSE, after_clear |-> FALSE,
     cleared |-> {}, ids |-> <<>>, result |-> <<>>]

Init ==
    /\ sessions = {}
    /\ messages = {}
    /\ seq_sessions = 0
    /\ seq_messages = 0
    /\ clock = 0
    /\ whitelist_users = {}
    /\ admins = add_initial_admins({}, ADMIN_USER_IDS, 0)
    /\ ret = Ret("none", None, None, 0, TRUE)
    /\ pc = [h \in Handlers |-> "idle"]
    /\ msg = [h \in Handlers |-> NoUpdate]
    /\ local = [h \in Handlers |-> Local0]
    /\ trace = [h \in Handlers |-> Trace0]
    /\ delivered = 0

\* Time passes on the backend's clock.
Tick ==
    /\ clock < MaxClock
    /\ clock' = clock + 1
    /\ UNCHANGED <<chat, registry, ret, dispatcher>>

\* Session::find_or_create_by_chat_id, run to completion.
find_or_create_by_chat_id(chat_id) ==
    \E id \in SelectSessionId(chat_id) :
        LET again == ret.op = "find_or_create_by_chat_id" /\ ret.chat_id = chat_id
            cleared == ret.op = "clear_history_by_chat_id" /\ ret.chat_id = chat_id
        IN
        IF id # None
        THEN /\ sessions' = UpdateSession(id)
             /\ ret' = [Ret("find_or_create_by_chat_id", chat_id, id, 0, TRUE)
                            EXCEPT !.found = TRUE, !.repeat = again, !.after_clear = cleared]
             /\ UNCHANGED <<messages, seq_sessions, seq_messages, clock, registry, dispatcher>>
        ELSE /\ seq_sessions < SeqMaxSessions
             /\ sessions' = InsertSession(chat_id)
             /\ seq_sessions' = seq_sessions + 1
             /\ ret' = [Ret("find_or_create_by_chat_id", chat_id, seq_sessions + 1, 0, TRUE)
                            EXCEPT !.repeat = again, !.after_clear = cleared]
             /\ UNCHANGED <<messages, seq_messages, clock, registry, dispatcher>>

\* Session::clear_history_by_chat_id, run to completion.
clear_history_by_chat_id(chat_id) ==
    LET ids == SelectSessionIds(chat_id)
        left == {m \in messages : m.session_id \notin ids}
    IN /\ messages' = left
       /\ sessions' = DeleteSessions(chat_id)
       /\ ret' = [Ret("clear_history_by_chat_id", chat_id, None, 0, TRUE)
                      EXCEPT !.repeat = (ret.op = "clear_history_by_chat_id"
                                         /\ ret.chat_id = chat_id),
                             !.cleared = ids]
       /\ UNCHANGED <<seq_sessions, seq_messages, clock, registry, dispatcher>>

\* Message::create
create(session_id, role, content) ==
    IF ForeignKeyOk(session_id)
    THEN /\ seq_messages < SeqMaxMessages
         /\ messages' = InsertMessage(session_id, role, content)
         /\ seq_messages' = seq_messages + 1
         /\ ret' = Ret("create", None, session_id, 0, TRUE)
         /\ UNCHANGED <<sessions, seq_sessions, clock, registry, dispatcher>>
    ELSE /\ ret' = Ret("create", None, session_id, 0, FALSE)
         /\ UNCHANGED <<sessions, messages, seq_sessions, seq_messages, clock, registry, dispatcher>>

\* Message::get_recent_messages
get_recent_messages(session_id, limit) ==
    \E rows \in SelectMessages(session_id, limit) :
        /\ ret' = [Ret("get_recent_messages", None, session_id, limit, TRUE)
                       EXCEPT !.ids = [i \in 1..Len(rows) |-> rows[i].id],
                              !.result = [i \in 1..Len(rows) |-> ChatMessage(rows[i])]]
        /\ UNCHANGED <<sessions, messages, seq_sessions, seq_messages, clock, registry, dispatcher>>

\* The session ids callers pass are ids find_or_create_by_chat_id returned
\* (main.rs:512, 593); the row may be gone by the time they are used.
NextSeq ==
    \/ Tick
    \/ \E c \in ChatIds : find_or_create_by_chat_id(c)
    \/ \E c \in ChatIds : clear_history_by_chat_id(c)
    \/ \E s \in 1..seq_sessions, t \in Turns : create(s, t.role, t.content)
    \/ \E s \in 1..seq_sessions, n \in Limits : get_recent_messages(s, n)

\* The functions of models.rs called directly on the tables init_db and
\* add_initial_admins leave; no dispatcher runs.
InitSeq ==
    /\ sessions = {}
    /\ messages = {}
    /\ seq_sessions = 0
    /\ seq_messages = 0
    /\ clock = 0
    /\ whitelist_users = {}
    /\ admins = add_initial_admins({}, ADMIN_USER_IDS, 0)
    /\ ret = Ret("none", None, None, 0, TRUE)
    /\ pc = <<>>
    /\ msg = <<>>
    /\ local = <<>>
    /\ trace = <<>>
    /\ delivered = 0

SpecSeq == InitSeq /\ [][NextSeq]_vars

\* The calls that write the tables, for the claims on the session store:
\* get_recent_messages changes no row.
NextStore ==
    \/ Tick
    \/ \E c \in ChatIds : find_or_create_by_chat_id(c)
    \/ \E c \in ChatIds : clear_history_by_chat_id(c)
    \/ \E s \in 1..seq_sessions, t \in Turns : create(s, t.role, t.content)

SpecStore == InitSeq /\ [][NextStore]_vars

\* The same calls on a sessions table that holds any rows the schema admits:
\* chat_id is not UNIQUE, so a conversation may have several session rows
\* (left by overlapping find_or_create_by_chat_id calls, or by another
\* process on the same database).
InitRows ==
    /\ \E n \in 0..SeqMaxSessions : \E f \in [1..n -> ChatIds] :
          /\ sessions = {SessionRow(i, f[i], 0) : i \in 1..n}
          /\ seq_sessions = n
    /\ messages = {}
    /\ seq_messages = 0
    /\ clock = 0
    /\ whitelist_users = {}
    /\ admins = add_initial_admins({}, ADMIN_USER_IDS, 0)
    /\ ret = Ret("none", None, None, 0, TRUE)
    /\ pc = <<>>
    /\ msg = <<>>
    /\ local = <<>>
    /\ trace = <<>>
    /\ delivered = 0

SpecRows == InitRows /\ [][NextStore]_vars

\* ------------------------------------------------------------ SpecBackends
\* The writing calls of SpecStore, which are the same statements on both
\* backends, and get_recent_messages run on each backend over the same
\* table contents, with any limit of its i64 parameter's sign.
MinLimit == -1
AnyLimits == MinLimit..MaxLimit

\* What get_recent_messages may return on each backend.
BackendsRet(session_id, limit, on) ==
    [op |-> "get_recent_messages", chat_id |-> None, session_id |-> session_id,
     limit |-> limit, ok |-> TRUE, sqlite |-> on["sqlite"], postgres |-> on["postgres"]]

get_recent_messages_on_each(session_id, limit) ==
    /\ ret' = BackendsRet(session_id, limit,
                          [b \in Backends |-> SelectMessagesOn(b, session_id, limit)])
    /\ UNCHANGED <<chat, registry, clock, dispatcher>>

NextBackends ==
    \/ NextStore
    \/ \E s \in 1..seq_sessions, n \in AnyLimits : get_recent_messages_on_each(s, n)

SpecBackends == InitSeq /\ [][NextBackends]_vars

\* -------------------------------------------------------------- SpecWindow
\* process_chat_message called for conversation 1 by callers whose calls may
\* overlap and interleave at every await, on a session that already holds
\* any number of turns up to MaxPrior, appended at distinct earlier times.
MaxPrior == 11
WindowMaxCalls == 2
Callers == {"c1", "c2"}

PriorTurn(i) ==
    IF i % 2 = 1 THEN [role |-> "user", content |-> "hello"]
    ELSE [role |-> "assistant", content |-> "hi"]

\* Where a caller's call stands and what it has done: the row its lookup
\* found, the session id it got, the ids of the user turn and the assistant
\* turn it appended, the context window it sent (ids are the messages.id of
\* its turns), how many chat-completion requests it made, whether it
\* returned Ok; started numbers the calls in the order they began, and alone
\* says that no other call was running at any time since this one began.
WindowRet(phase, started, alone) ==
    [op |-> "process_chat_message", phase |-> phase, started |-> started,
     alone |-> alone, found |-> None, session_id |-> None, user_id |-> None,
     reply_id |-> None, ids |-> <<>>, window |-> <<>>, calls |-> 0, ok |-> TRUE]

\* process_chat_message when the request failed (send().await?, an error
\* status, a body without the content): it returns Err.
AfterLlmError_Retry(r) ==
    IF r.calls < 1 THEN [r EXCEPT !.calls = @ + 1]
    ELSE [r EXCEPT !.phase = "idle", !.calls = @ + 1, !.ok = FALSE]

AfterLlmError(r) == [r EXCEPT !.phase = "idle", !.calls = @ + 1, !.ok = FALSE]

\* The call of caller d is running.
Running_Never(d) == FALSE

Running(d) == ret[d].phase # "idle"

InitWindow ==
    /\ \E n \in 0..MaxPrior :
          /\ sessions = IF n = 0 THEN {} ELSE {SessionRow(1, 1, 0 - n)}
          /\ seq_sessions = IF n = 0 THEN 0 ELSE 1
          /\ messages = {MessageRow(i, 1, PriorTurn(i).role, PriorTurn(i).content,
                                     i - n - 1) : i \in 1..n}
          /\ seq_messages = n
    /\ ret = [c \in Callers |-> WindowRet("idle", 0, TRUE)]
    /\ clock = 0
    /\ whitelist_users = {}
    /\ admins = add_initial_admins({}, ADMIN_USER_IDS, 0)
    /\ pc = <<>>
    /\ msg = <<>>
    /\ local = <<>>
    /\ trace = <<>>
    /\ delivered = 0

\* A call begins: find_or_create_by_chat_id, its SELECT.  delivered counts
\* the calls begun.
window_select(c, chat_id) ==
    /\ ~Running(c)
    /\ delivered < WindowMaxCalls
    /\ delivered' = delivered + 1
    /\ \E id \in SelectSessionId(chat_id) :
          ret' = [d \in Callers |->
                    IF d = c
                    THEN [WindowRet("selected", delivered + 1,
                                    \A e \in Callers \ {c} : ~Running(e))
                             EXCEPT !.found = id]
                    ELSE [ret[d] EXCEPT !.alone = @ /\ ~Running(d)]]
    /\ UNCHANGED <<chat, registry, clock, pc, msg, local, trace>>

\* find_or_create_by_chat_id, its UPDATE or its INSERT.
window_write(c, chat_id) ==
    /\ ret[c].phase = "selected"
    /\ IF ret[c].found # None
       THEN /\ sessions' = UpdateSession(ret[c].found)
            /\ ret' = [ret EXCEPT ![c].phase = "found", ![c].session_id = ret[c].found]
            /\ UNCHANGED seq_sessions
       ELSE /\ sessions' = InsertSession(chat_id)
            /\ seq_sessions' = seq_sessions + 1
            /\ ret' = [ret EXCEPT ![c].phase = "found",
                                  ![c].session_id = seq_sessions + 1]
    /\ UNCHANGED <<messages, seq_messages, registry, clock, dispatcher>>

\* process_chat_message: the user turn is saved.
window_append(c, message) ==
    /\ ret[c].phase = "found"
    /\ messages' = InsertMessage(ret[c].session_id, "user", message)
    /\ seq_messages' = seq_messages + 1
    /\ ret' = [ret EXCEPT ![c].phase = "appended", ![c].user_id = seq_messages + 1]
    /\ UNCHANGED <<sessions, seq_sessions, registry, clock, dispatcher>>

\* process_chat_message: the context window is read and made the messages
\* of the request.
window_history(c) ==
    /\ ret[c].phase = "appended"
    /\ \E rows \in SelectMessages(ret[c].session_id, HistoryLimit) :
          ret' = [ret EXCEPT ![c].phase = "sent",
                             ![c].ids = [i \in 1..Len(rows) |-> rows[i].id],
                             ![c].window = [i \in 1..Len(rows) |-> ChatMessage(rows[i])]]
    /\ UNCHANGED <<chat, registry, clock, dispatcher>>

\* process_chat_message: the LLM answers and the assistant turn is saved, or
\* the request fails and the function returns Err.
window_reply(c) ==
    /\ ret[c].phase = "sent"
    /\ \/ /\ messages' = InsertMessage(ret[c].session_id, "assistant", "hi")
          /\ seq_messages' = seq_messages + 1
          /\ ret' = [ret EXCEPT ![c].phase = "idle", ![c].calls = @ + 1,
                                ![c].reply_id = seq_messages + 1]
       \/ /\ ret' = [ret EXCEPT ![c] = AfterLlmError(ret[c])]
          /\ UNCHANGED <<messages, seq_messages>>
    /\ UNCHANGED <<sessions, seq_sessions, registry, clock, dispatcher>>

NextWindow ==
    \/ Tick
    \/ \E c \in Callers : window_select(c, 1)
    \/ \E c \in Callers : window_write(c, 1)
    \/ \E c \in Callers : window_append(c, "hello")
    \/ \E c \in Callers : window_history(c)
    \/ \E c \in Callers : window_reply(c)

SpecWindow == InitWindow /\ [][NextWindow]_vars

\* ------------------------------------------------------------------- Spec
Next ==
    \/ Tick
    \/ \E h \in Handlers, u \in Updates : dispatch(h, u)
    \/ \E h \in Handlers : handler_return(h)
    \/ \E h \in Handlers : default_handler(h)
    \/ \E h \in Handlers : cw_is_admin(h)
    \/ \E h \in Handlers : cw_is_whitelisted(h)
    \/ \E h \in Handlers : htm_thinking(h)
    \/ \E h \in Handlers : foc_select(h)
    \/ \E h \in Handlers : foc_write(h)
    \/ \E h \in Handlers : pcm_create_user(h)
    \/ \E h \in Handlers : pcm_history(h)
    \/ \E h \in Handlers : pcm_llm(h)
    \/ \E h \in Handlers : pcm_create_reply(h)
    \/ \E h \in Handlers : resolve(h)
    \/ \E h \in Handlers : hvm_download(h)
    \/ \E h \in Handlers : hvm_transcribe(h)
    \/ \E h \in Handlers : hvm_create(h)
    \/ \E h \in Handlers : hvm_thinking(h)
    \/ \E h \in Handlers : clr_select(h)
    \/ \E h \in Handlers : clr_delete_messages(h)
    \/ \E h \in Handlers : clr_delete_sessions(h)
    \/ \E h \in Handlers : cmd_info(h)
    \/ \E h \in Handlers : cmd_check(h)
    \/ \E h \in Handlers : cmd_apply(h)
    \/ \E h \in Handlers : storage_error(h)

Spec == Init /\ [][Next]_vars

\* ---------------------------------------------------------------- SpecReg
\* The registry functions of models.rs and the start-up of db.rs, called one
\* after the other with arbitrary arguments.  Every call is one statement,
\* so overlapping calls amount to the calls in some order.
UserIds == {1, 2}

\* The (username, added_by, notes) a caller of add_user may pass.
AddUserArgs ==
    {<<NoStr, 1, NoStr>>, <<Some(<<"a">>), 2, Some(<<"f">>)>>}

\* The values of ADMIN_USER_IDS the process may be started with: unset or
\* empty, one id, ids around an entry that is no number, padded ids.
Configs ==
    {<<>>, <<"1">>, <<"x", ",", "2">>, <<"1", ",", ",", " ", "2", " ">>,
     <<"-", "1", ",", "1", "x">>}

\* What a call returned: returned is the bool of remove_user or the rows of
\* get_all_users / get_all_admins, present says
\* that the row of user_id was there before the call (for init_db: that the
\* call before it was init_db with the same list).
RegRet(op, user_id, arg, present, returned) ==
    [op |-> op, user_id |-> user_id, arg |-> arg, present |-> present,
     returned |-> returned]

\* The database the process is started on: new, or holding a conversation.
InitReg ==
    /\ \E held \in BOOLEAN :
          /\ sessions = IF held THEN {SessionRow(1, 1, 0)} ELSE {}
          /\ messages = IF held THEN {MessageRow(1, 1, "user", "hello", 0)} ELSE {}
          /\ seq_sessions = IF held THEN 1 ELSE 0
          /\ seq_messages = IF held THEN 1 ELSE 0
    /\ clock = 0
    /\ whitelist_users = {}
    /\ admins = {}
    /\ ret = RegRet("none", None, <<>>, FALSE, FALSE)
    /\ pc = <<>>
    /\ msg = <<>>
    /\ local = <<>>
    /\ trace = <<>>
    /\ delivered = 0

\* The call before this one was init_db with the same ADMIN_USER_IDS.
Again(admin_ids) == ret.op = "init_db" /\ ret.arg = admin_ids

\* init_db: CREATE TABLE IF NOT EXISTS leaves existing tables alone, then
\* add_initial_admins seeds the configured super-admins.
init_db(admin_ids) ==
    /\ admins' = add_initial_admins(admins, admin_ids, clock)
    /\ ret' = RegRet("init_db", None, admin_ids, Again(admin_ids), TRUE)
    /\ UNCHANGED <<chat, whitelist_users, clock, dispatcher>>

call_add_user(user_id, a) ==
    /\ whitelist_users' = add_user(user_id, a[1], a[2], a[3])
    /\ ret' = RegRet("add_user", user_id, a, is_user_whitelisted(user_id), TRUE)
    /\ UNCHANGED <<chat, admins, clock, dispatcher>>

call_remove_user(user_id) ==
    /\ whitelist_users' = remove_user(user_id)
    /\ ret' = RegRet("remove_user", user_id, <<>>, is_user_whitelisted(user_id),
                     remove_user_returns(user_id))
    /\ UNCHANGED <<chat, admins, clock, dispatcher>>

call_add_admin(user_id, is_super) ==
    /\ admins' = add_admin(user_id, NoStr, is_super)
    /\ ret' = RegRet("add_admin", user_id, <<is_super>>, is_admin(user_id), TRUE)
    /\ UNCHANGED <<chat, whitelist_users, clock, dispatcher>>

call_get_all_users ==
    /\ \E rows \in get_all_users :
          ret' = RegRet("get_all_users", None, <<>>, FALSE, rows)
    /\ UNCHANGED <<chat, registry, clock, dispatcher>>

call_get_all_admins ==
    /\ \E rows \in get_all_admins :
          ret' = RegRet("get_all_admins", None, <<>>, FALSE, rows)
    /\ UNCHANGED <<chat, registry, clock, dispatcher>>

NextReg ==
    \/ Tick
    \/ call_get_all_users
    \/ call_get_all_admins
    \/ \E c \in Configs : init_db(c)
    \/ \E u \in UserIds, a \in AddUserArgs : call_add_user(u, a)
    \/ \E u \in UserIds : call_remove_user(u)
    \/ \E u \in UserIds, b \in BOOLEAN : call_add_admin(u, b)

SpecReg == InitReg /\ [][NextReg]_vars

\* --------------------------------------------------------------- SpecBoot
\* The dispatcher of Spec in a process that may stop and be started again at
\* any moment, each time with some ADMIN_USER_IDS: the handlers in flight
\* are gone, the database stays, and init_db runs before the dispatcher.
BootConfigs == {<<"1">>, <<"1", ",", "2">>}

\* The state after the first start on a new database.
InitBoot ==
    /\ sessions = {}
    /\ messages = {}
    /\ seq_sessions = 0
    /\ seq_messages = 0
    /\ clock = 0
    /\ whitelist_users = {}
    /\ \E c \in BootConfigs :
          /\ admins = add_initial_admins({}, c, 0)
          /\ ret = RegRet("init_db", None, c, FALSE, TRUE)
    /\ pc = [h \in Handlers |-> "idle"]
    /\ msg = [h \in Handlers |-> NoUpdate]
    /\ local = [h \in Handlers |-> Local0]
    /\ trace = [h \in Handlers |-> Trace0]
    /\ delivered = 0

\* main: the process starts again; init_db runs on the database as it is.
startup(admin_ids) ==
    /\ admins' = add_initial_admins(admins, admin_ids, clock)
    /\ ret' = RegRet("init_db", None, admin_ids, FALSE, TRUE)
    /\ pc' = [h \in Handlers |-> "idle"]
    /\ msg' = [h \in Handlers |-> NoUpdate]
    /\ local' = [h \in Handlers |-> Local0]
    /\ trace' = [h \in Handlers |-> Trace0]
    /\ UNCHANGED <<chat, whitelist_users, clock, delivered>>

\* The updates sent to it: the administrative commands and a text message.
BootUpdates ==
    {u \in Updates : /\ u.kind \in AdminCommands \cup {"text"}
                     /\ u.chat_id = 1 /\ u.from # None
                     /\ u.text \in {<<>>, <<"h", "i">>}
                     /\ u.arg # NotedArg}

NextBoot ==
    \/ Tick
    \/ \E c \in BootConfigs : startup(c)
    \/ \E h \in Handlers, u \in BootUpdates : dispatch(h, u)
    \/ \E h \in Handlers : handler_return(h)
    \/ \E h \in Handlers : cw_is_admin(h)
    \/ \E h \in Handlers : cw_is_whitelisted(h)
    \/ \E h \in Handlers : htm_thinking(h)
    \/ \E h \in Handlers : foc_select(h)
    \/ \E h \in Handlers : foc_write(h)
    \/ \E h \in Handlers : pcm_create_user(h)
    \/ \E h \in Handlers : pcm_history(h)
    \/ \E h \in Handlers : pcm_llm(h)
    \/ \E h \in Handlers : pcm_create_reply(h)
    \/ \E h \in Handlers : resolve(h)
    \/ \E h \in Handlers : cmd_check(h)
    \/ \E h \in Handlers : cmd_apply(h)
    \/ \E h \in Handlers : storage_error(h)

SpecBoot == InitBoot /\ [][NextBoot]_vars

\* ------------------------------------------------------------- SpecRevoke
\* The dispatcher of Spec on a database whose whitelist holds user 2, granted
\* by admin 1 in an earlier run; user 2 writes to the bot in chat 1 while
\* admin 1, in chat 2, removes user 2 from the whitelist.
Revoked == 2

RevokeUpdates ==
    {Update("text", 1, Revoked, <<"h", "i">>, <<>>),
     Update("RemoveUser", 2, 1, <<>>, <<"2">>)}

InitRevoke ==
    /\ sessions = {}
    /\ messages = {}
    /\ seq_sessions = 0
    /\ seq_messages = 0
    /\ clock = 0
    /\ whitelist_users = {WhitelistRow(Revoked, NoStr, 1, NoStr, 0)}
    /\ admins = add_initial_admins({}, ADMIN_USER_IDS, 0)
    /\ ret = Ret("none", None, None, 0, TRUE)
    /\ pc = [h \in Handlers |-> "idle"]
    /\ msg = [h \in Handlers |-> NoUpdate]
    /\ local = [h \in Handlers |-> Local0]
    /\ trace = [h \in Handlers |-> Trace0]
    /\ delivered = 0

NextRevoke ==
    \/ Tick
    \/ \E h \in Handlers, u \in RevokeUpdates : dispatch(h, u)
    \/ \E h \in Handlers : handler_return(h)
    \/ \E h \in Handlers : cw_is_admin(h)
    \/ \E h \in Handlers : cw_is_whitelisted(h)
    \/ \E h \in Handlers : htm_thinking(h)
    \/ \E h \in Handlers : foc_select(h)
    \/ \E h \in Handlers : foc_write(h)
    \/ \E h \in Handlers : pcm_create_user(h)
    \/ \E h \in Handlers : pcm_history(h)
    \/ \E h \in Handlers : pcm_llm(h)
    \/ \E h \in Handlers : pcm_create_reply(h)
    \/ \E h \in Handlers : resolve(h)
    \/ \E h \in Handlers : cmd_check(h)
    \/ \E h \in Handlers : cmd_apply(h)
    \/ \E h \in Handlers : storage_error(h)

SpecRevoke == InitRevoke /\ [][NextRevoke]_vars

\* --------------------------------------------------------------- SpecLive
\* The dispatcher on text events and Clear commands of conversation 1.  The
\* runtime polls every spawned task until it ends, and every call a task
\* awaits returns (with Ok or with Err): a handler that can take a step
\* takes one.  Which updates arrive, and when, is up to the senders.
LiveUpdates ==
    {Update("text", 1, 1, t, <<>>) : t \in Texts}
    \cup {Update("text", 1, 2, <<"h", "i">>, <<>>), Update("Clear", 1, 1, <<>>, <<>>)}

\* One step of the task of handler h.
HandlerStep(h) ==
    \/ handler_return(h)
    \/ cw_is_admin(h)
    \/ cw_is_whitelisted(h)
    \/ htm_thinking(h)
    \/ foc_select(h)
    \/ foc_write(h)
    \/ pcm_create_user(h)
    \/ pcm_history(h)
    \/ pcm_llm(h)
    \/ pcm_create_reply(h)
    \/ resolve(h)
    \/ clr_select(h)
    \/ clr_delete_messages(h)
    \/ clr_delete_sessions(h)
    \/ storage_error(h)

NextLive ==
    \/ Tick
    \/ \E h \in Handlers, u \in LiveUpdates : dispatch(h, u)
    \/ \E h \in Handlers : HandlerStep(h)

SpecLive ==
    /\ Init
    /\ [][NextLive]_vars
    /\ \A h \in Handlers : WF_vars(HandlerStep(h))

\* ---------------------------------------------------------------- SpecIds
\* The whitelist and admin functions take user_id: u64 and bind
\* `user_id as i64`; the list functions read the column as i64 and return
\* `as u64`.  A 64-bit value is written as its four 16-bit limbs, most
\* significant first; an i64 is its sign and the limbs of its magnitude,
\* which is how the BIGINT / INTEGER column orders and compares it.
LimbBase == 2^16
Limbs == 64 \div 16

U64(a, b, c, d) == <<a, b, c, d>>

\* x + 1 modulo 2^64, the carry entering at limb k.
RECURSIVE Incr(_, _)
Incr(x, k) ==
    IF k = 0 THEN x
    ELSE IF x[k] < LimbBase - 1 THEN [x EXCEPT ![k] = @ + 1]
    ELSE Incr([x EXCEPT ![k] = 0], k - 1)

\* 2^64 - x modulo 2^64: every bit flipped, plus one.
wrapping_neg(x) ==
    LET y == Incr([k \in 1..Limbs |-> LimbBase - 1 - x[k]], Limbs)
    IN U64(y[1], y[2], y[3], y[4])

\* Bit 63 of x.
TopBit(x) == x[1] >= LimbBase \div 2

I64(neg, mag) == [neg |-> neg, mag |-> mag]

\* `u as i64`: the value u when u < 2^63, else u - 2^64.
as_i64_Saturating(u) ==
    IF TopBit(u)
    THEN I64(FALSE, U64(LimbBase \div 2 - 1, LimbBase - 1, LimbBase - 1, LimbBase - 1))
    ELSE I64(FALSE, u)

as_i64(u) == IF TopBit(u) THEN I64(TRUE, wrapping_neg(u)) ELSE I64(FALSE, u)

\* `i as u64`: the value i when i >= 0, else i + 2^64.
as_u64(i) == IF i.neg THEN wrapping_neg(i.mag) ELSE i.mag

\* The user ids the callers pass: 1, 2^63 - 1, 2^63, 2^64 - 1.
U64Ids ==
    {U64(0, 0, 0, 1),
     U64(LimbBase \div 2 - 1, LimbBase - 1, LimbBase - 1, LimbBase - 1),
     U64(LimbBase \div 2, 0, 0, 0),
     U64(LimbBase - 1, LimbBase - 1, LimbBase - 1, LimbBase - 1)}

\* The administrators whose AddUser command calls add_user: 1, 2^64 - 1.
U64Adders ==
    {U64(0, 0, 0, 1), U64(LimbBase - 1, LimbBase - 1, LimbBase - 1, LimbBase - 1)}

\* What a call returned, and the ids add_user and add_admin have been called
\* with so far.
IdsRet(op, user_id, returned, users, admin_ids) ==
    [op |-> op, user_id |-> user_id, returned |-> returned, users |-> users,
     admin_ids |-> admin_ids]

InitIds ==
    /\ sessions = {}
    /\ messages = {}
    /\ seq_sessions = 0
    /\ seq_messages = 0
    /\ clock = 0
    /\ whitelist_users = {}
    /\ admins = {}
    /\ ret = IdsRet("none", U64(0, 0, 0, 1), FALSE, {}, {})
    /\ pc = <<>>
    /\ msg = <<>>
    /\ local = <<>>
    /\ trace = <<>>
    /\ delivered = 0

ids_add_user(user_id, added_by) ==
    /\ whitelist_users' = add_user(as_i64(user_id), NoStr, as_i64(added_by), NoStr)
    /\ ret' = IdsRet("add_user", user_id, TRUE, ret.users \cup {user_id},
                     ret.admin_ids)
    /\ UNCHANGED <<chat, admins, clock, dispatcher>>

ids_add_admin(user_id) ==
    /\ admins' = add_admin(as_i64(user_id), NoStr, FALSE)
    /\ ret' = IdsRet("add_admin", user_id, TRUE, ret.users,
                     ret.admin_ids \cup {user_id})
    /\ UNCHANGED <<chat, whitelist_users, clock, dispatcher>>

ids_is_user_whitelisted(user_id) ==
    /\ ret' = IdsRet("is_user_whitelisted", user_id,
                     is_user_whitelisted(as_i64(user_id)), ret.users, ret.admin_ids)
    /\ UNCHANGED <<chat, registry, clock, dispatcher>>

ids_is_admin(user_id) ==
    /\ ret' = IdsRet("is_admin", user_id, is_admin(as_i64(user_id)), ret.users,
                     ret.admin_ids)
    /\ UNCHANGED <<chat, registry, clock, dispatcher>>

\* get_all_users / get_all_admins: user_id: row.get::<i64, _>(1) as u64
ids_get_all_users ==
    /\ \E rows \in get_all_users :
          ret' = IdsRet("get_all_users", ret.user_id,
                        [i \in 1..Len(rows) |-> as_u64(rows[i].user_id)],
                        ret.users, ret.admin_ids)
    /\ UNCHANGED <<chat, registry, clock, dispatcher>>

ids_get_all_admins ==
    /\ \E rows \in get_all_admins :
          ret' = IdsRet("get_all_admins", ret.user_id,
                        [i \in 1..Len(rows) |-> as_u64(rows[i].user_id)],
                        ret.users, ret.admin_ids)
    /\ UNCHANGED <<chat, registry, clock, dispatcher>>

NextIds ==
    \/ \E u \in U64Ids, by \in U64Adders : ids_add_user(u, by)
    \/ \E u \in U64Ids : ids_add_admin(u)
    \/ \E u \in U64Ids : ids_is_user_whitelisted(u)
    \/ \E u \in U64Ids : ids_is_admin(u)
    \/ ids_get_all_users
    \/ ids_get_all_admins

SpecIds == InitIds /\ [][NextIds]_vars

\* ------------------------------------- claims on SpecSeq and SpecStore
\* The turns of session s in the order in which they were appended.
AppendHistory(s) == OrderById({m \in messages : m.session_id = s})

Suffix(h, n) == SubSeq(h, Len(h) - Min(n, Len(h)) + 1, Len(h))

TurnsOf(rows) == [i \in 1..Len(rows) |-> ChatMessage(rows[i])]

IdsOf(rows) == [i \in 1..Len(rows) |-> rows[i].id]

Recent == ret.op = "get_recent_messages"

\* C1: get_recent_messages(s, N) returns the N most recently appended turns
\* of s (all of them when s holds fewer than N): a suffix of the append
\* history.
C1_RecentIsNewestSuffix ==
    Recent => ret.result = TurnsOf(Suffix(AppendHistory(ret.session_id), ret.limit))

\* C2: get_recent_messages(s, N) returns at most N turns, all of them turns
\* of s, in the relative order in which they were appended, and nothing
\* when N = 0.
C2_RecentBoundedUnreordered ==
    Recent =>
        /\ Len(ret.ids) <= ret.limit
        /\ \A i \in 1..Len(ret.ids) :
              \E m \in messages : m.id = ret.ids[i] /\ m.session_id = ret.session_id
        /\ \A i, j \in 1..Len(ret.ids) : i < j => ret.ids[i] < ret.ids[j]
        /\ (ret.limit = 0 => ret.result = <<>>)

\* C3: after k appends to s and no clear, get_recent_messages(s, L) with
\* L >= k returns exactly the k turns in the order in which they were
\* appended, whatever timestamps the rows received.
C3_RecentAllInAppendOrder ==
    (Recent /\ ret.limit >= Len(AppendHistory(ret.session_id))) =>
        ret.result = TurnsOf(AppendHistory(ret.session_id))

UpdatedAt(id) == (CHOOSE s \in sessions : s.id = id).updated_at

\* C8: two find_or_create_by_chat_id(c) calls, one after the other, return
\* the same session id; the second creates no session row and leaves
\* updated_at no earlier than the first left it.
C8_FindOrCreateTwice ==
    [][(/\ ret.op = "find_or_create_by_chat_id"
        /\ ret'.op = "find_or_create_by_chat_id"
        /\ ret'.chat_id = ret.chat_id)
       => (/\ ret'.session_id = ret.session_id
           /\ {s.id : s \in sessions'} = {s.id : s \in sessions}
           /\ UpdatedAt(ret.session_id)' >= UpdatedAt(ret.session_id))]_vars

\* The second of two calls in a row found the session, at a later time.
C8_Witness ==
    /\ ret.op = "find_or_create_by_chat_id"
    /\ ret.repeat
    /\ ret.found
    /\ \E s \in sessions : s.id = ret.session_id /\ s.updated_at > s.created_at

\* C9: the sessions table holds at most one row per conversation id.
C9_OneSessionPerChat ==
    \A s1, s2 \in sessions : s1.chat_id = s2.chat_id => s1.id = s2.id

\* Two conversations hold one session each, and a repeated contact found its
\* session (which already holds a turn) instead of inserting another row.
C9_Witness ==
    /\ Cardinality(sessions) = 2
    /\ ret.op = "find_or_create_by_chat_id"
    /\ ret.found
    /\ \E m \in messages : m.session_id = ret.session_id

\* --------------------------------------------------- claims on Spec
\* The step is one of handler h.
Acting(h) == <<pc[h], local[h], trace[h]>>' # <<pc[h], local[h], trace[h]>>

GatedKinds == {"text", "voice", "Clear"}

\* The rows of the two registry tables, read directly.
InAdmins(u) == \E a \in admins : a.user_id = u
InSuperAdmins(u) == \E a \in admins : a.user_id = u /\ a.is_super
InWhitelist(u) == \E w \in whitelist_users : w.user_id = u
InNeither(u) == ~InAdmins(u) /\ ~InWhitelist(u)

\* The ways an update ends without being served.
Refused == {"denied", "rejected", "ignored", "unhandled"}

\* The program positions at which an authorization query is about to run.
CheckSteps == {"cw_is_admin", "cw_is_whitelisted", "cmd_check"}

\* C4: a text or voice update that the LLM answers appends exactly the user
\* turn carrying the update's text and then the assistant turn carrying the
\* reply.  (Violated: the voice path saves the transcript twice.)
C4_HandlingAppendsUserThenAssistant ==
    \A h \in Handlers :
        pc[h] = "resolve" /\ local[h].result = "ok" =>
            trace[h].appended = <<Turn("user", local[h].text),
                                  Turn("assistant", local[h].reply)>>

\* An admin who is not whitelisted passes check_whitelist when the is_admin
\* query answers.
AdminOnlyServed(h) ==
    /\ pc[h] = "cw_is_admin"
    /\ InAdmins(msg[h].from) /\ ~InWhitelist(msg[h].from)
    /\ trace'[h].is_admin # "err"
    => trace'[h].granted /\ pc'[h] = Entry(msg[h].kind)

\* A query that runs while the sender is in neither table grants nothing.
StrangerNotGranted(h) ==
    pc[h] \in CheckSteps /\ InNeither(msg[h].from) =>
        /\ ~trace'[h].granted
        /\ pc'[h] \in {"cw_is_whitelisted", "done"}
        /\ pc'[h] = "done" => trace'[h].outcome \in Refused

\* A handler that was granted nothing touches no table and calls neither
\* the transcription nor the LLM.
UngrantedInert(h) ==
    ~trace'[h].granted =>
        /\ UNCHANGED <<chat, registry>>
        /\ trace'[h].calls = {}

C6_AdminCommandsGated ==
    [][\A h \in Handlers :
          Acting(h) /\ msg[h].kind \in AdminCommands =>
              /\ trace'[h].check = "true" =>
                     IF msg[h].kind = "AddAdmin" THEN InSuperAdmins(msg[h].from)
                     ELSE InAdmins(msg[h].from)
              /\ pc'[h] = "cmd_apply" => trace'[h].check = "true"
              /\ registry' # registry =>
                     pc[h] = "cmd_apply" /\ trace[h].check = "true"
              /\ trace'[h].listing # <<>> => trace[h].check = "true"
              /\ msg[h].from = None /\ pc'[h] = "done" =>
                     trace'[h].outcome = "ignored"]_vars

\* An admin has whitelisted a user and the AddUser of a non-admin has been
\* rejected.
C6_Witness ==
    \E h \in Handlers :
        /\ pc[h] = "done" /\ msg[h].kind = "AddUser" /\ msg[h].from = 2
        /\ trace[h].check = "false" /\ trace[h].outcome = "rejected"
        /\ whitelist_users # {}

\* C7: check_whitelist grants exactly when is_admin returned Ok(true) or
\* is_user_whitelisted returned Ok(true); a query that fails authorizes
\* nothing; a handler that was not granted goes no further than the check,
\* ends denied, has appended nothing and has called neither the
\* transcription nor the LLM.
C7_ChecksGrantOnlyOnOkTrue ==
    \A h \in Handlers :
        msg[h].kind \in GatedKinds =>
            /\ trace[h].granted <=>
                   trace[h].is_admin = "true" \/ trace[h].is_whitelisted = "true"
            /\ ~trace[h].granted =>
                   /\ pc[h] \in {"cw_is_admin", "cw_is_whitelisted", "done"}
                   /\ trace[h].appended = <<>>
                   /\ trace[h].calls = {}
                   /\ pc[h] = "done" => trace[h].outcome = "denied"

\* An admin has been denied because both queries failed.
C7_Witness ==
    \E h \in Handlers :
        /\ pc[h] = "done" /\ msg[h].kind \in GatedKinds
        /\ InAdmins(msg[h].from)
        /\ trace[h].is_admin = "err" /\ trace[h].is_whitelisted = "err"
        /\ trace[h].outcome = "denied"

\* The rows of conversation c: its session rows and their messages.
RowsOf(c) ==
    <<{s \in sessions : s.chat_id = c},
      {m \in messages : \E s \in sessions : s.id = m.session_id /\ s.chat_id = c}>>

\* What handler h reads comes from its own conversation: the session it
\* finds is a row of its chat, the history it reads is rows of its session.
ReadsOwn(h) ==
    /\ local'[h].found # local[h].found /\ local'[h].found # None =>
           \E s \in sessions : s.id = local'[h].found /\ s.chat_id = msg[h].chat_id
    /\ pc[h] = "pcm_history" /\ pc'[h] = "pcm_llm" =>
           /\ \A i \in 1..Len(local'[h].hist_ids) :
                 \E m \in messages : /\ m.id = local'[h].hist_ids[i]
                                     /\ m.session_id = local[h].session_id
                                     /\ ChatMessage(m) = local'[h].history[i]
           /\ \A m \in messages :
                 m.session_id # local[h].session_id =>
                     \A i \in 1..Len(local'[h].hist_ids) : local'[h].hist_ids[i] # m.id

C11_NoOrphanMessage ==
    \A m \in messages : \E s \in sessions : s.id = m.session_id

\* A Clear has removed the session a running handler had resolved, and the
\* handler's next Message::create was refused.
C11_Witness ==
    \E h, g \in Handlers :
        /\ msg[h].kind = "Clear" /\ trace[h].outcome = "cleared"
        /\ msg[g].chat_id = msg[h].chat_id
        /\ pc[g] = "resolve" /\ local[g].result = "err"
        /\ local[g].session_id # None
        /\ ~\E s \in sessions : s.id = local[g].session_id

\* C12: find_or_create_by_chat_id(c) called right after
\* clear_history_by_chat_id(c) inserts a session whose id differs from every
\* id issued before (ids 1..seq_sessions), and get_recent_messages on that
\* session returns the empty sequence for every limit.
C12_FreshSessionAfterClear ==
    [][(/\ ret.op = "clear_history_by_chat_id"
        /\ ret'.op = "find_or_create_by_chat_id"
        /\ ret'.chat_id = ret.chat_id)
       => (/\ ~ret'.found
           /\ ret'.session_id \notin 1..seq_sessions
           /\ \A s \in sessions : s.id # ret'.session_id
           /\ \E s \in sessions' : s.id = ret'.session_id /\ s.chat_id = ret.chat_id
           /\ \A n \in Limits :
                 {Take(o, n) : o \in OrderByTimestampAsc(
                      {m \in messages' : m.session_id = ret'.session_id})} = {<<>>})]_vars

\* A conversation whose session held a turn was cleared and, on its next
\* contact, got a second session.
C12_Witness ==
    /\ ret.op = "find_or_create_by_chat_id"
    /\ ret.after_clear
    /\ ret.session_id = 2
    /\ seq_messages > 0
    /\ messages = {}
    /\ \A s \in sessions : s.chat_id = ret.chat_id

\* C13: clear_history_by_chat_id(c) run with no overlapping call succeeds and
\* leaves no session row of c and no message of any session of c, also when
\* c has several sessions; when c has no session, or when the call before
\* was the same clear, it succeeds and changes no row.
C13_ClearRemovesAllAndIsIdempotent ==
    [][ret'.op = "clear_history_by_chat_id" /\ ret' # ret =>
          LET c == ret'.chat_id
              ids == {s.id : s \in {r \in sessions : r.chat_id = c}}
          IN /\ ret'.ok
             /\ \A s \in sessions' : s.chat_id # c
             /\ \A m \in messages' : m.session_id \notin ids
             /\ ids = {} => UNCHANGED <<sessions, messages>>
             /\ ret'.repeat => UNCHANGED <<sessions, messages>>]_vars

\* A conversation with two session rows, which held turns, has been cleared.
C13_Witness ==
    /\ ret.op = "clear_history_by_chat_id"
    /\ Cardinality(ret.cleared) = 2
    /\ seq_messages = SeqMaxMessages
    /\ messages = {}
    /\ sessions = {}

\* --------------------------------------------------- claims on SpecReg
\* C14: the whitelist holds at most one row per user_id in every reachable
\* state, and add_user for a user_id that is present succeeds and leaves the
\* table, hence the row's username, added_by and notes, as it was.
C14_AddUserIdempotent ==
    /\ [](\A w1, w2 \in whitelist_users : w1.user_id = w2.user_id => w1 = w2)
    /\ [][ret'.op = "add_user" /\ clock' = clock
            /\ (\E w \in whitelist_users : w.user_id = ret'.user_id)
          => whitelist_users' = whitelist_users /\ ret'.returned]_vars

\* add_user was called for a present user with another added_by and
\* other notes than the row carries.
C14_Witness ==
    /\ ret.op = "add_user"
    /\ ret.present
    /\ \E w \in whitelist_users :
          /\ w.user_id = ret.user_id
          /\ w.username # ret.arg[1]
          /\ w.added_by # ret.arg[2]
          /\ w.notes # ret.arg[3]
          /\ w.added_at < clock

\* C15: remove_user(u) returns true exactly when a row of u was there and
\* this call deleted it; afterwards is_user_whitelisted(u) is false; when u
\* is absent it returns false and the whitelist is unchanged; in both cases
\* the admin table and the other whitelist rows are unchanged.
C15_RemoveUserReturnsWhetherDeleted ==
    [][ret'.op = "remove_user" /\ clock' = clock =>
          LET u == ret'.user_id
              was == \E w \in whitelist_users : w.user_id = u
          IN /\ ret'.returned <=> was
             /\ ret'.returned <=> whitelist_users' # whitelist_users
             /\ ~\E w \in whitelist_users' : w.user_id = u
             /\ ~was => whitelist_users' = whitelist_users
             /\ {w \in whitelist_users' : w.user_id # u}
                    = {w \in whitelist_users : w.user_id # u}
             /\ admins' = admins]_vars

\* remove_user has deleted one of two whitelist rows and returned true.
C15_Witness ==
    /\ ret.op = "remove_user"
    /\ ret.returned /\ ret.present
    /\ Cardinality(whitelist_users) = 1
    /\ \A w \in whitelist_users : w.user_id # ret.user_id
    /\ admins # {}

\* C17: the admin table holds at most one row per user_id in every reachable
\* state, and add_admin for a user_id that is present succeeds and leaves
\* the table, hence the row and its is_super flag, as it was.
C17_AddAdminIdempotent ==
    /\ [](\A a1, a2 \in admins : a1.user_id = a2.user_id => a1 = a2)
    /\ [][ret'.op = "add_admin" /\ clock' = clock
            /\ (\E a \in admins : a.user_id = ret'.user_id)
          => admins' = admins /\ ret'.returned]_vars

\* add_admin was called for a present admin with the other is_super flag,
\* while the table holds a super-admin and a regular admin.
C17_Witness ==
    /\ ret.op = "add_admin"
    /\ ret.present
    /\ \E a \in admins :
          a.user_id = ret.user_id /\ a.is_super # ret.arg[1] /\ a.added_at < clock
    /\ \E a, b \in admins : a.is_super /\ ~b.is_super

\* ------------------------------------------- further claims on Spec
\* C16: when an admin's AddUser command carries a user id and a note, and
\* nothing was handled before it, the command is accepted and the whitelist
\* then holds a row with that user id, the admin as added_by and the note.
\* (Violated: the whole argument, note included, must parse as the id.)
C16_AddUserKeepsNote ==
    \A h \in Handlers :
        /\ pc[h] = "done" /\ delivered = 1
        /\ msg[h].kind = "AddUser" /\ msg[h].arg = NotedArg
        /\ trace[h].check = "true" /\ trace[h].outcome # "cmd_error"
        => /\ trace[h].outcome = "added"
           /\ \E w \in whitelist_users :
                 /\ w.user_id = 2
                 /\ w.added_by = msg[h].from
                 /\ w.notes = Some(<<"f">>)

\* ------------------------------------------------------ claims on SpecBoot
\* A step of the process start: every handler is gone and the admin table is
\* the seeding of the table before it with the configuration of the start.
IsStartup ==
    /\ \A h \in Handlers : pc'[h] = "idle"
    /\ admins' = add_initial_admins(admins, ret'.arg, clock)
    /\ ret'.op = "init_db"

\* A step in which the AddAdmin command of handler h, granted by its check,
\* runs its statement for user_id.
IsGrantedAddAdmin(h, user_id) ==
    /\ pc[h] = "cmd_apply" /\ pc'[h] = "done"
    /\ msg[h].kind = "AddAdmin"
    /\ trace[h].check = "true"
    /\ local[h].target = user_id

\* C18: across start-ups, commands and messages no admin row is removed or
\* changed; a check of an AddAdmin command answers true only while its sender
\* is a super-admin; a new row with is_super = FALSE comes from the statement
\* of an AddAdmin command whose check answered true; and a new row with
\* is_super = TRUE comes from the seeding of a start-up, never from a command.
C18_AdminRowsStable ==
    /\ [][admins \subseteq admins']_vars
    /\ [][\A h \in Handlers :
             pc[h] = "cmd_check" /\ msg[h].kind = "AddAdmin" /\ trace'[h].check = "true"
             => is_super_admin(msg[h].from)]_vars
    /\ [][\A a \in admins' \ admins :
             IF a.is_super THEN IsStartup
             ELSE \E h \in Handlers : IsGrantedAddAdmin(h, a.user_id)]_vars

\* A regular admin made by the command of a super-admin has stayed regular
\* through a later start-up whose configuration names it, next to the seeded
\* super-admin.
C18_Witness ==
    /\ ret.arg = <<"1", ",", "2">>
    /\ delivered > 0
    /\ \A h \in Handlers : pc[h] = "idle"
    /\ \E a, b \in admins :
          /\ a.user_id = 1 /\ a.is_super
          /\ b.user_id = 2 /\ ~b.is_super

\* ----------------------------------------------- further claims on SpecReg
\* The ids a configured list names: its comma-separated entries that, once
\* trimmed, are integers.
SeedIds(admin_ids) ==
    IF admin_ids = <<>> THEN {}
    ELSE LET entries == Split(admin_ids, ",")
         IN {parse_i64(Trim(entries[i])).val :
                 i \in {j \in 1..Len(entries) : parse_i64(Trim(entries[j])).ok}}

\* C19: the seeding of a start-up succeeds for every configured list; it
\* inserts a super-admin row for each entry that is an integer and has no
\* row, whether or not an entry before it is no integer; it inserts nothing
\* else, changes no row, and inserts nothing for an empty or absent list.
C19_SeedingProcessesEveryEntry ==
    [][ret'.op = "init_db" /\ clock' = clock
        => /\ ret'.returned
           /\ admins \subseteq admins'
           /\ {a.user_id : a \in admins' \ admins}
                  = {i \in SeedIds(ret'.arg) : ~is_admin(i)}
           /\ \A a \in admins' \ admins : a.is_super
           /\ (ret'.arg = <<>> => admins' = admins)]_vars

\* Started on an empty admin table with the list "x,2": the entry after the
\* one that is no integer has been seeded as a super-admin.
C19_Witness ==
    /\ ret.op = "init_db"
    /\ ret.arg = <<"x", ",", "2">>
    /\ ret.returned
    /\ Cardinality(admins) = 1
    /\ \E a \in admins : a.user_id = 2 /\ a.is_super /\ a.added_at = 0

\* C20: init_db changes no row of the sessions, messages and whitelist
\* tables and no admin row, and leaves at most one admin row per user_id;
\* run again with the same configuration it leaves the admin table as it was.
C20_InitDbIdempotent ==
    [][ret'.op = "init_db" /\ clock' = clock
        => /\ sessions' = sessions /\ messages' = messages
           /\ whitelist_users' = whitelist_users
           /\ admins \subseteq admins'
           /\ \A a1, a2 \in admins' : a1.user_id = a2.user_id => a1 = a2
           /\ (ret'.present => admins' = admins)]_vars

\* init_db has run twice in a row with the list "1,, 2 ", on a database that
\* holds a session, a message, a whitelist row and the two admins seeded by
\* the first run.
C20_Witness ==
    /\ ret.op = "init_db" /\ ret.present
    /\ ret.arg = <<"1", ",", ",", " ", "2", " ">>
    /\ sessions # {} /\ messages # {} /\ whitelist_users # {}
    /\ clock > 0
    /\ {a.user_id : a \in admins} = {1, 2}
    /\ \A a \in admins : a.is_super /\ a.added_at = 0

\* -------------------------------------------------- claims on SpecBackends
\* C21: on the same table contents the SQLite variant and the PostgreSQL
\* variant of get_recent_messages have the same possible outcomes (success
\* or failure, and the turns returned), for every limit.
\* (Violated: a negative limit is "no limit" on SQLite and an error on
\* PostgreSQL.)
C21_BackendsAgree ==
    ret.op = "get_recent_messages" => ret.sqlite = ret.postgres

\* ------------------------------------------- further claims on Spec (2)
\* C22: when the clear of a conversation ends with an error, it has deleted
\* no message (and no session) of the conversation.
\* (Violated: the messages are deleted statement by statement before the
\* DELETE of the sessions, with no transaction around them.)
C22_FailedClearDeletesNothing ==
    \A h \in Handlers :
        pc[h] = "done" /\ trace[h].outcome = "clear_error" => trace[h].deleted = {}

\* ------------------------------------------- further claims on SpecReg (2)
\* C23: get_all_admins returns every row of the admin table exactly once,
\* every super-admin before every regular admin, and within each of the two
\* in ascending order of added_at.
C23_AdminsSuperFirstThenByTime ==
    ret.op = "get_all_admins" =>
        LET r == ret.returned
        IN /\ Range(r) = admins
           /\ Len(r) = Cardinality(admins)
           /\ \A i, j \in 1..Len(r) :
                 i < j => /\ r[i].is_super \/ ~r[j].is_super
                          /\ r[i].is_super = r[j].is_super
                                => r[i].added_at <= r[j].added_at

\* The list of three admins: a super-admin granted late comes before a
\* regular admin granted early, and last a regular admin granted late.
C23_Witness ==
    /\ ret.op = "get_all_admins"
    /\ Len(ret.returned) = 3
    /\ ret.returned[1].is_super /\ ret.returned[1].added_at = 1
    /\ ~ret.returned[2].is_super /\ ret.returned[2].added_at = 0
    /\ ~ret.returned[3].is_super /\ ret.returned[3].added_at = 1

\* C24: get_all_users returns every row of the whitelist exactly once, in
\* descending order of added_at (the entry granted last comes first).
C24_UsersNewestFirst ==
    ret.op = "get_all_users" =>
        LET r == ret.returned
        IN /\ Range(r) = whitelist_users
           /\ Len(r) = Cardinality(whitelist_users)
           /\ \A i, j \in 1..Len(r) : i < j => r[i].added_at >= r[j].added_at

\* The list of two whitelist rows granted at different times, the later one
\* first.
C24_Witness ==
    /\ ret.op = "get_all_users"
    /\ Len(ret.returned) = 2
    /\ ret.returned[1].added_at = 1
    /\ ret.returned[2].added_at = 0

\* Handler h is past find_or_create_by_chat_id, which missed the lookup and
\* inserted.
InsertedAfterMiss(h) ==
    /\ msg[h].kind \in {"text", "voice"}
    /\ local[h].session_id # None
    /\ local[h].found = None

\* C25: two find_or_create_by_chat_id calls for one conversation that both
\* missed the lookup have returned different session ids, and the step on
\* which such a call inserts adds a row for the conversation to the rows the
\* sessions table already holds, the other call's row included: nothing stops
\* the second insert, so the conversation gets two session rows.
C25_RacingFirstContactsDuplicate ==
    /\ [](\A g, h \in Handlers :
            /\ g # h
            /\ msg[g].chat_id = msg[h].chat_id
            /\ InsertedAfterMiss(g) /\ InsertedAfterMiss(h)
            => local[g].session_id # local[h].session_id)
    /\ [][\A h \in Handlers :
            ~InsertedAfterMiss(h) /\ InsertedAfterMiss(h)'
            => /\ sessions \subseteq sessions'
               /\ \E s \in sessions' \ sessions :
                     /\ s.id = local'[h].session_id
                     /\ s.chat_id = msg'[h].chat_id
                     /\ sessions' = sessions \cup {s}]_vars

\* Two handlers of conversation 1 have both missed and both inserted: the
\* sessions table holds two rows for conversation 1.
C25_Witness ==
    /\ \A h \in Handlers : msg[h].chat_id = 1 /\ InsertedAfterMiss(h)
    /\ Cardinality({s \in sessions : s.chat_id = 1}) = 2

\* ---------------------------------------------------- claims on SpecWindow
\* C26: the context window process_chat_message sends holds the user turn
\* the call has just appended, whatever the number of turns the session held
\* before, and as its last element when no other call has run since the call
\* began.
\* (Violated: the query returns the HistoryLimit oldest turns.)
C26_WindowEndsWithNewTurn ==
    \A c \in Callers :
        ret[c].phase = "sent" =>
            /\ \E i \in 1..Len(ret[c].ids) : ret[c].ids[i] = ret[c].user_id
            /\ ret[c].alone => ret[c].ids[Len(ret[c].ids)] = ret[c].user_id

\* C27: when the chat-completion request of process_chat_message fails, the
\* call has made one request, returns Err and appends no assistant turn; the
\* user turn it appended before the request stays in the session.
C27_LlmFailureKeepsUserTurnOnly ==
    /\ [][\A c \in Callers :
             ret[c].phase = "sent" /\ ret'[c].phase = "idle" /\ ~ret'[c].ok
             => /\ ret'[c].calls = 1
                /\ messages' = messages]_vars
    /\ [](\A c \in Callers :
             ret[c].phase = "idle" /\ ~ret[c].ok
             => /\ ret[c].calls = 1
                /\ ret[c].reply_id = None
                /\ \E m \in messages :
                      /\ m.id = ret[c].user_id /\ m.session_id = ret[c].session_id
                      /\ m.role = "user")

\* A call on a session of two turns has failed at the LLM: the session holds
\* the two turns and the new user turn, which is its last.
C27_Witness ==
    \E c \in Callers :
        /\ ret[c].phase = "idle" /\ ~ret[c].ok
        /\ ret[c].ids = <<1, 2, 3>>
        /\ {m.id : m \in messages} = {1, 2, 3}
        /\ \E m \in messages : m.id = 3 /\ m.role = "user"

\* ------------------------------------------- further claims on SpecBoot
\* C28: after a start-up every configured id that is an integer is a
\* super-admin, whatever the admin table held before.
\* (Violated: the seeding is INSERT OR IGNORE, so an id that already has a
\* regular-admin row stays a regular admin.)
C28_SeededAreSuperAdmins ==
    ret.op = "init_db" /\ ret.returned =>
        \A i \in SeedIds(ret.arg) : is_super_admin(i)

\* ---------------------------------------------------- claims on SpecRevoke
\* C29: once remove_user has deleted the whitelist row of user 2, who is no
\* admin, no handler of an event sent by user 2 appends a turn or calls the
\* LLM.  (No event of SpecRevoke adds to the whitelist, so the row is absent
\* exactly when remove_user has returned true.)
\* (Violated: the whitelist is read once, when the handler starts.)
C29_NoTurnAfterRemoval ==
    [][~is_user_whitelisted(Revoked) /\ ~is_admin(Revoked)
        => \A h \in Handlers :
              msg[h].from = Revoked /\ msg'[h] = msg[h]
              => /\ trace'[h].appended = trace[h].appended
                 /\ trace'[h].calls = trace[h].calls]_vars

\* ------------------------------------------- further claims on SpecWindow
\* Call c has appended its assistant turn right after its user turn: no row
\* of its session has an id between the two.
AnswerFollowsQuestion(c) ==
    ret[c].reply_id # None
    => ~\E m \in messages :
           /\ m.session_id = ret[c].session_id
           /\ ret[c].user_id < m.id /\ m.id < ret[c].reply_id

\* The window call c sent holds no turn appended by a call that began later.
WindowFreeOfLaterCalls(c) ==
    \A d \in Callers :
        ret[d].started > ret[c].started
        => \A i \in 1..Len(ret[c].ids) :
               ret[c].ids[i] \notin {ret[d].user_id, ret[d].reply_id}

Asked(h) ==
    /\ pc[h] = "htm_thinking"
    /\ msg[h].kind = "text"
    /\ ~starts_with_slash(msg[h].text)
    /\ trace[h].granted

\* Handler h has ended with the placeholder deleted and the reply sent, or
\* with the placeholder edited into the error text.
Resolved(h) ==
    /\ pc[h] = "done"
    /\ \/ trace[h].outcome = "replied" /\ trace[h].placeholder = "deleted"
       \/ trace[h].outcome = "error_shown" /\ trace[h].placeholder = "edited"

\* No transport call of a handler has failed.
TransportOk == \A h \in Handlers : trace[h].outcome # "transport_error"

\* C31: when no transport call fails and the LLM call returns, every
\* authorized text event that is no command ends with exactly one outcome:
\* the placeholder deleted and the reply sent, or the placeholder edited into
\* the error text.  A placeholder that was deleted or edited stays so until
\* the handler has returned: it is never both deleted and edited.
C31_TextEventResolvedOnce ==
    /\ \A h \in Handlers : ([]TransportOk) => (Asked(h) ~> Resolved(h))
    /\ [][\A h \in Handlers :
            trace[h].placeholder \in {"deleted", "edited"}
            => \/ trace'[h].placeholder = trace[h].placeholder
               \/ pc[h] = "done" /\ pc'[h] = "idle"]_vars

\* Two text events have ended, one with the reply sent and one with the
\* error text.
C31_Witness ==
    \E g, h \in Handlers :
        /\ Resolved(g) /\ trace[g].outcome = "replied"
        /\ Resolved(h) /\ trace[h].outcome = "error_shown"

\* ------------------------------------------------------- claims on SpecIds
\* C32: for user ids of the whole u64 range, 2^63 and above included, the
\* ids for which is_user_whitelisted / is_admin return true are exactly the
\* ids add_user / add_admin were called with (the id just added among them,
\* no other id with it), and get_all_users / get_all_admins report exactly
\* these ids, each once.
C32_IdsSurviveTheCast ==
    /\ \A u \in U64Ids :
          /\ is_user_whitelisted(as_i64(u)) <=> u \in ret.users
          /\ is_admin(as_i64(u)) <=> u \in ret.admin_ids
    /\ ret.op \in {"is_user_whitelisted"} => (ret.returned <=> ret.user_id \in ret.users)
    /\ ret.op \in {"is_admin"} => (ret.returned <=> ret.user_id \in ret.admin_ids)
    /\ ret.op = "get_all_users"
       => /\ Range(ret.returned) = ret.users
          /\ Len(ret.returned) = Cardinality(ret.users)
    /\ ret.op = "get_all_admins"
       => /\ Range(ret.returned) = ret.admin_ids
          /\ Len(ret.returned) = Cardinality(ret.admin_ids)

\* The users 2^63 and 2^64 - 1 were added, and get_all_users has reported
\* the two of them.
C32_Witness ==
    /\ ret.op = "get_all_users"
    /\ Range(ret.returned) = {U64(LimbBase \div 2, 0, 0, 0),
                              U64(LimbBase - 1, LimbBase - 1, LimbBase - 1, LimbBase - 1)}
    /\ as_i64(U64(LimbBase - 1, LimbBase - 1, LimbBase - 1, LimbBase - 1))
           = I64(TRUE, U64(0, 0, 0, 1))

====
